---- MODULE Spec2Model ----
(***************************************************************************)
(* Capital.com market analyser: the CLI run (run_analyzer.py) and the web  *)
(* viewer's background refresh (web_viewer.py) as a state machine.         *)
(*                                                                         *)
(* A run logs in, walks the configured categories, lists the instruments   *)
(* of each, fetches the details and the performance of every listed        *)
(* instrument, collects one record per instrument and exports the records  *)
(* to the data file.  The upstream client (capital_analyzer.CapitalAPI) is *)
(* an external collaborator: each of its calls is a nondeterministic       *)
(* choice among the outcomes its callers handle.                           *)
(*                                                                         *)
(* The module also holds the record and CSV text level (compile, export,   *)
(* load, parse) and the readers of the data file: /api/top-performers,     *)
(* the dashboard statistics and the tables of view_results.py.             *)
(***************************************************************************)
EXTENDS Integers, Sequences, FiniteSets, TLC

\* ------------------------------------------------------------------ bounds
MaxWorkers == 2
MaxFaults == 2

\* Positions (1-based index within a category) at which the upstream may
\* fail a detail fetch: around the start of a list and around the index a
\* ping follows.
FaultIdx == {1, 2, 20, 21}

\* Category lists a configuration may hold.
CategoryLists ==
    { <<"forex", "commodities">>,
      <<"shares", "indices">>,
      <<"etf", "cryptocurrencies">>,
      <<"Forex">>,
      << >> }

\* The category list of the concurrent web-viewer specification.
WebCategoryLists == { <<"forex">> }

\* List lengths the upstream may return for a category.
Sizes(category, small) ==
    IF small THEN {0, 2}
    ELSE IF category = "shares" THEN {0, 1, 50, 51}
    ELSE {0, 1, 20, 21}

Workers == 1..MaxWorkers

\* ------------------------------------------------------- string functions
\* str.lower() on the category names in use.
Lower(category) ==
    IF category = "Forex" THEN "forex" ELSE category

\* str.title() on the category names in use.
Title(category) ==
    CASE category = "forex" -> "Forex"
      [] category = "Forex" -> "Forex"
      [] category = "commodities" -> "Commodities"
      [] category = "shares" -> "Shares"
      [] category = "indices" -> "Indices"
      [] category = "etf" -> "Etf"
      [] category = "cryptocurrencies" -> "Cryptocurrencies"

\* ------------------------------------------------------------ the upstream
\* The instrument list of a category with n instruments, in upstream order:
\* epics n, n-1, ..., 1 (the upstream order is not the epic order).
Listing(n) ==
    [i \in 1..n |-> n - i + 1]

\* ---------------------------------------------------------- category caps
\* run_analyzer.CATEGORY_LIMITS without its None entry: .get() returns None
\* for 'commodities' and for any key that is absent.
CATEGORY_LIMITS ==
    [c \in {"forex", "shares", "indices", "etf", "cryptocurrencies"} |->
        IF c = "shares" THEN 50 ELSE 20]

\* A slip of the slice: the last `limit` entries instead of the first.
TruncateLast(ms, limit) ==
    SubSeq(ms, IF limit < Len(ms) THEN Len(ms) - limit + 1 ELSE 1, Len(ms))

\* markets[:limit]
Truncate(ms, limit) ==
    SubSeq(ms, 1, IF limit < Len(ms) THEN limit ELSE Len(ms))

\* run_analyzer: limit = CATEGORY_LIMITS.get(category.lower());
\* if limit is not None: markets = markets[:limit]
CliLimit(category, ms) ==
    IF Lower(category) \in DOMAIN CATEGORY_LIMITS
    THEN Truncate(ms, CATEGORY_LIMITS[Lower(category)])
    ELSE ms

\* web_viewer: limit = 20 if category != 'commodities' else None;
\* if limit: markets = markets[:limit]
WebLimit(category, ms) ==
    IF category # "commodities" THEN Truncate(ms, 20) ELSE ms

\* `if idx % 20 == 0: api.ping()`
PING_EVERY == 20

\* A slip of the check: a record is compiled whatever the fetch returned.
HasDetailsAlways(details) ==
    details \in {"ok", "none"}

\* `if not details: continue`: a record is compiled only from details.
HasDetails(details) ==
    details = "ok"

\* A slip of the check: the run goes on whatever create_session returned.
SessionOkAlways(result) ==
    result \in {"ok", "fail"}

\* `if not api.create_session()`: the run goes on only with a session.
SessionOk(result) ==
    result = "ok"

\* The record compiled for an instrument (its identifying fields).
MarketData(category, epic) ==
    [Category |-> Title(category), Symbol |-> epic]

VARIABLES
    orch,            \* which orchestrator runs: "cli" or "web"
    categories,      \* config.CATEGORIES
    pc,              \* position of each run
    catIdx,          \* index of the category of the outer loop
    idx,             \* enumerate(markets, 1) index of the inner loop
    markets,         \* the (truncated) instrument list of the category
    all_data,        \* records collected by the run
    refresh_status,  \* web_viewer.refresh_status
    file,            \* capital_markets_analysis.csv
    clock,           \* datetime.now()
    response,        \* last answer of POST /api/refresh-now
    faults,          \* upstream failures so far
    obs,             \* what each run has issued so far (calls, delays)
    csv,             \* the text of the data file: header row and rows
    seen             \* what the last load of the data file returned

vars ==
    <<orch, categories, pc, catIdx, idx, markets, all_data, refresh_status,
      file, clock, response, faults, obs, csv, seen>>

\* --------------------------------------------------------------- observer
Obs0 ==
    [session |-> "none",    \* outcome of create_session
     nSession |-> 0,        \* create_session calls
     nList |-> 0,           \* get_markets_by_category calls
     nDetail |-> 0,         \* get_market_details calls
     nOk |-> 0,             \* ... that returned details
     nNone |-> 0,           \* ... that returned nothing
     nPerf |-> 0,           \* calculate_performance calls
     nPing |-> 0,           \* ping calls
     nSleep |-> 0,          \* time.sleep calls
     nWrite |-> 0,          \* times the data file was opened for writing
     avail |-> << >>,       \* per listed category: instruments returned
     proc |-> << >>,        \* per listed category: instruments processed
     sincePing |-> 0,       \* detail fetches since login or the last ping
     pingFailed |-> FALSE,  \* a ping has failed
     dead |-> FALSE,        \* a call was issued after a failed ping
     undelayed |-> FALSE,   \* detail fetched and no delay executed since
     rushed |-> FALSE,      \* a call followed a detail fetch with no delay
     raised |-> "none",     \* the call that last raised an exception
     emptied |-> FALSE,     \* a listing came back empty
     ioerror |-> FALSE,     \* the write of the data file failed
     perfs |-> << >>]       \* the performance results the records came from

\* A network call of the given kind is issued.
Call(o, kind) ==
    [o EXCEPT
       !.rushed = @ \/ (o.undelayed /\ kind # "perf"),
       !.dead = @ \/ (o.pingFailed /\ kind # "ping"),
       !.undelayed = kind \in {"detail", "perf"},
       !.nList = IF kind = "list" THEN @ + 1 ELSE @,
       !.nDetail = IF kind = "detail" THEN @ + 1 ELSE @,
       !.nPerf = IF kind = "perf" THEN @ + 1 ELSE @,
       !.nPing = IF kind = "ping" THEN @ + 1 ELSE @,
       !.sincePing = IF kind = "detail" THEN @ + 1
                     ELSE IF kind = "ping" THEN 0 ELSE @]

\* get_market_details has returned with the given outcome.
Detail(o, r) ==
    [Call(o, "detail") EXCEPT
       !.nOk = IF r = "ok" THEN @ + 1 ELSE @,
       !.nNone = IF r = "none" THEN @ + 1 ELSE @,
       !.raised = IF r = "raise" THEN "detail" ELSE @]

\* ping has returned with the given outcome.
Ping(o, r) ==
    [Call(o, "ping") EXCEPT
       !.pingFailed = @ \/ r # "ok",
       !.raised = IF r = "raise" THEN "ping" ELSE @]

\* The data file is opened for writing, with the given outcome.
Write(o, r) ==
    [o EXCEPT !.nWrite = @ + 1, !.ioerror = @ \/ r # "ok"]

\* time.sleep(REQUEST_DELAY)
Sleep(o) ==
    [o EXCEPT !.undelayed = FALSE, !.nSleep = @ + 1]

CanFault ==
    faults < MaxFaults

Fault(outcome) ==
    faults' = IF outcome \in {"ok", "list"} THEN faults ELSE faults + 1

\* Outcomes of the upstream calls.
SessionOutcomes ==
    {"ok"} \cup (IF CanFault THEN {"fail"} ELSE {})

ListOutcomes ==
    {"list"} \cup (IF CanFault THEN {"raise"} ELSE {})

DetailOutcomes(w) ==
    {"ok"} \cup (IF CanFault /\ idx[w] \in FaultIdx
                 THEN {"none", "raise"} ELSE {})

PingOutcomes ==
    {"ok"} \cup (IF CanFault THEN {"fail", "raise"} ELSE {})

WriteOutcomes ==
    {"ok"} \cup (IF CanFault THEN {"ioerror"} ELSE {})

\* ------------------------------------------------------------- the loops
\* The outer loop moves to the next category, or ends.
NextCategory(w) ==
    /\ catIdx' = [catIdx EXCEPT ![w] = @ + 1]
    /\ idx' = [idx EXCEPT ![w] = 0]
    /\ pc' = [pc EXCEPT ![w] =
                IF catIdx[w] + 1 > Len(categories) THEN "export"
                ELSE "category"]

\* The inner loop moves to the next instrument, or the outer loop moves on.
Continue(w) ==
    IF idx[w] < Len(markets[w])
    THEN /\ idx' = [idx EXCEPT ![w] = @ + 1]
         /\ pc' = [pc EXCEPT ![w] = "instrument"]
         /\ UNCHANGED catIdx
    ELSE NextCategory(w)

\* The exception escapes fetch_and_analyze_markets and main() and is printed
\* by the __main__ handler; all_data keeps the records the frame held when
\* it was dropped.
CliCrash(w) ==
    /\ pc' = [pc EXCEPT ![w] = "crashed"]
    /\ UNCHANGED <<catIdx, idx>>

\* ------------------------------------------------------------ the CLI run
\* main(): create the session; without one, return.
CliCreateSession(w) ==
    /\ orch = "cli"
    /\ pc[w] = "session"
    /\ \E r \in SessionOutcomes :
         /\ Fault(r)
         /\ obs' = [obs EXCEPT ![w].session = r, ![w].nSession = @ + 1]
         /\ IF SessionOk(r)
            THEN /\ pc' = [pc EXCEPT ![w] =
                             IF Len(categories) = 0 THEN "export"
                             ELSE "category"]
                 /\ catIdx' = [catIdx EXCEPT ![w] = 1]
            ELSE /\ pc' = [pc EXCEPT ![w] = "done"]
                 /\ UNCHANGED catIdx
    /\ all_data' = [all_data EXCEPT ![w] = << >>]
    /\ UNCHANGED <<csv, seen, orch, categories, idx, markets, refresh_status, file,
                   clock, response>>

\* fetch_and_analyze_markets: list the category and apply its limit.
CliListCategory(w, small) ==
    /\ orch = "cli"
    /\ pc[w] = "category"
    /\ \E r \in ListOutcomes :
         /\ Fault(r)
         /\ IF r = "raise"
            THEN /\ obs' = [obs EXCEPT
                              ![w] = [Call(@, "list") EXCEPT
                                        !.raised = "list"]]
                 /\ CliCrash(w)
                 /\ UNCHANGED markets
            ELSE \E n \in Sizes(categories[catIdx[w]], small) :
                   LET ms == CliLimit(categories[catIdx[w]], Listing(n))
                   IN  /\ markets' = [markets EXCEPT ![w] = ms]
                       /\ obs' = [obs EXCEPT
                                    ![w] = [Call(@, "list") EXCEPT
                                              !.avail = Append(@, n),
                                              !.proc = Append(@, 0),
                                              !.emptied = @ \/ n = 0]]
                       /\ IF Len(ms) = 0
                          THEN NextCategory(w)
                          ELSE /\ idx' = [idx EXCEPT ![w] = 1]
                               /\ pc' = [pc EXCEPT ![w] = "instrument"]
                               /\ UNCHANGED catIdx
    /\ UNCHANGED <<csv, seen, orch, categories, all_data, refresh_status, file, clock,
                   response>>

\* One more instrument of the current category is processed.
Processed(o) ==
    [o EXCEPT !.proc[Len(o.proc)] = @ + 1]

\* fetch_and_analyze_markets: details, performance and record of one
\* instrument.
CliProcessInstrument(w) ==
    /\ orch = "cli"
    /\ pc[w] = "instrument"
    /\ \E r \in DetailOutcomes(w) :
         LET o1 == Processed(Detail(obs[w], r))
             epic == markets[w][idx[w]]
         IN  /\ Fault(r)
             /\ IF r = "raise"
                THEN /\ obs' = [obs EXCEPT ![w] = o1]
                     /\ CliCrash(w)
                     /\ UNCHANGED all_data
                ELSE IF HasDetails(r)
                THEN /\ obs' = [obs EXCEPT ![w] = Call(o1, "perf")]
                     /\ all_data' =
                          [all_data EXCEPT
                             ![w] = Append(@, MarketData(
                                        categories[catIdx[w]], epic))]
                     /\ pc' = [pc EXCEPT ![w] = "ratelimit"]
                     /\ UNCHANGED <<catIdx, idx>>
                ELSE /\ obs' = [obs EXCEPT ![w] = o1]
                     /\ Continue(w)
                     /\ UNCHANGED all_data
    /\ UNCHANGED <<csv, seen, orch, categories, markets, refresh_status, file, clock,
                   response>>

\* fetch_and_analyze_markets: the delay, and the ping on every 20th index.
CliRateLimit(w) ==
    /\ orch = "cli"
    /\ pc[w] = "ratelimit"
    /\ IF idx[w] % PING_EVERY = 0
       THEN \E r \in PingOutcomes :
              /\ Fault(r)
              /\ obs' = [obs EXCEPT ![w] = Ping(Sleep(@), r)]
              /\ IF r = "raise" THEN CliCrash(w) ELSE Continue(w)
       ELSE /\ obs' = [obs EXCEPT ![w] = Sleep(@)]
            /\ Continue(w)
            /\ UNCHANGED faults
    /\ UNCHANGED <<csv, seen, orch, categories, markets, all_data, refresh_status, file,
                   clock, response>>

\* main(): `if market_data: export_to_csv(...)`, then the summary (the
\* launch of the viewer that follows is a separate process and is not part
\* of the run).  export_to_csv swallows an error of the write.
CliExport(w) ==
    /\ orch = "cli"
    /\ pc[w] = "export"
    /\ IF Len(all_data[w]) > 0
       THEN \E r \in WriteOutcomes :
              /\ Fault(r)
              /\ obs' = [obs EXCEPT ![w] = Write(@, r)]
              /\ file' = IF r = "ok"
                         THEN [exists |-> TRUE, rows |-> all_data[w]]
                         ELSE file
       ELSE UNCHANGED <<file, faults, obs>>
    /\ pc' = [pc EXCEPT ![w] = "done"]
    /\ UNCHANGED <<csv, seen, orch, categories, catIdx, idx, markets, all_data,
                   refresh_status, clock, response>>

\* -------------------------------------------------- the web viewer refresh
WebFailEscapes(w) ==
    /\ pc' = [pc EXCEPT ![w] = "crashed"]
    /\ UNCHANGED <<refresh_status, catIdx, idx>>

\* The outer `except Exception`: the error becomes the status message and
\* the records collected so far are dropped with the frame.
WebFail(w) ==
    /\ refresh_status' = [refresh_status EXCEPT
                            !.status_message = <<"Error fetching data", 0>>]
    /\ pc' = [pc EXCEPT ![w] = "finally"]
    /\ UNCHANGED <<catIdx, idx>>

\* refresh_market_data_background: the first two statements of the thread.
WebStart(w) ==
    /\ orch = "web"
    /\ pc[w] = "start"
    /\ refresh_status' = [refresh_status EXCEPT
                            !.in_progress = TRUE,
                            !.status_message = <<"Connecting", 0>>]
    /\ pc' = [pc EXCEPT ![w] = "session"]
    /\ UNCHANGED <<csv, seen, orch, categories, catIdx, idx, markets, all_data, file,
                   clock, response, faults, obs>>

\* refresh_market_data_background: create the session; without one, raise.
WebCreateSession(w) ==
    /\ orch = "web"
    /\ pc[w] = "session"
    /\ \E r \in SessionOutcomes :
         /\ Fault(r)
         /\ obs' = [obs EXCEPT ![w].session = r, ![w].nSession = @ + 1]
         /\ IF SessionOk(r)
            THEN /\ refresh_status' =
                      [refresh_status EXCEPT
                         !.status_message = <<"Fetching market data", 0>>]
                 /\ pc' = [pc EXCEPT ![w] =
                             IF Len(categories) = 0 THEN "export"
                             ELSE "category"]
                 /\ catIdx' = [catIdx EXCEPT ![w] = 1]
                 /\ UNCHANGED idx
            ELSE WebFail(w)
    /\ all_data' = [all_data EXCEPT ![w] = << >>]
    /\ UNCHANGED <<csv, seen, orch, categories, markets, file, clock, response>>

\* refresh_market_data_background: list the category and apply the limit.
WebListCategory(w, small) ==
    /\ orch = "web"
    /\ pc[w] = "category"
    /\ \E r \in ListOutcomes :
         /\ Fault(r)
         /\ IF r = "raise"
            THEN /\ obs' = [obs EXCEPT
                              ![w] = [Call(@, "list") EXCEPT
                                        !.raised = "list"]]
                 /\ WebFail(w)
                 /\ UNCHANGED markets
            ELSE \E n \in Sizes(categories[catIdx[w]], small) :
                   LET ms == WebLimit(categories[catIdx[w]], Listing(n))
                   IN  /\ refresh_status' =
                            [refresh_status EXCEPT
                               !.status_message =
                                  <<categories[catIdx[w]], 0>>]
                       /\ obs' = [obs EXCEPT
                                    ![w] = [Call(@, "list") EXCEPT
                                              !.avail = Append(@, n),
                                              !.proc = Append(@, 0),
                                              !.emptied = @ \/ n = 0]]
                       /\ IF n = 0
                          THEN /\ NextCategory(w)
                               /\ markets' = [markets EXCEPT
                                                ![w] = Listing(n)]
                          ELSE /\ markets' = [markets EXCEPT ![w] = ms]
                               /\ idx' = [idx EXCEPT ![w] = 1]
                               /\ pc' = [pc EXCEPT ![w] = "instrument"]
                               /\ UNCHANGED catIdx
    /\ UNCHANGED <<csv, seen, orch, categories, all_data, file, clock, response>>

\* refresh_market_data_background: details, performance and record of one
\* instrument; the inner `except Exception` turns an error into a skip.
WebProcessInstrument(w) ==
    /\ orch = "web"
    /\ pc[w] = "instrument"
    /\ \E r \in DetailOutcomes(w) :
         LET o1 == Processed(Detail(obs[w], r))
             epic == markets[w][idx[w]]
         IN  /\ Fault(r)
             /\ IF r # "raise" /\ HasDetails(r)
                THEN /\ obs' = [obs EXCEPT ![w] = Call(o1, "perf")]
                     /\ all_data' =
                          [all_data EXCEPT
                             ![w] = Append(@, MarketData(
                                        categories[catIdx[w]], epic))]
                     /\ pc' = [pc EXCEPT ![w] = "ratelimit"]
                     /\ UNCHANGED <<catIdx, idx>>
                ELSE /\ obs' = [obs EXCEPT ![w] = o1]
                     /\ Continue(w)
                     /\ UNCHANGED all_data
    /\ UNCHANGED <<csv, seen, orch, categories, markets, refresh_status, file, clock,
                   response>>

\* refresh_market_data_background: the delay, and the ping on every 20th
\* index; an error of the ping is caught by the inner handler.
WebRateLimit(w) ==
    /\ orch = "web"
    /\ pc[w] = "ratelimit"
    /\ IF idx[w] % PING_EVERY = 0
       THEN \E r \in PingOutcomes :
              /\ Fault(r)
              /\ obs' = [obs EXCEPT ![w] = Ping(Sleep(@), r)]
       ELSE /\ obs' = [obs EXCEPT ![w] = Sleep(@)]
            /\ UNCHANGED faults
    /\ Continue(w)
    /\ UNCHANGED <<csv, seen, orch, categories, markets, all_data, refresh_status, file,
                   clock, response>>

\* The statements after export_to_csv returns: the refresh is stamped.
Stamp(w) ==
    /\ clock' = clock + 1
    /\ refresh_status' = [refresh_status EXCEPT
                            !.last_refresh = clock + 1,
                            !.status_message =
                               <<"Updated", Len(all_data[w])>>]

\* refresh_market_data_background: `if all_data:` the export is started,
\* open(filename, 'w') truncates the file and the header is written;
\* export_to_csv swallows an error of the open.
WebExportBegin(w) ==
    /\ orch = "web"
    /\ pc[w] = "export"
    /\ IF Len(all_data[w]) > 0
       THEN \E r \in WriteOutcomes :
              /\ Fault(r)
              /\ obs' = [obs EXCEPT ![w] = Write(@, r)]
              /\ IF r = "ok"
                 THEN /\ file' = [exists |-> TRUE, rows |-> << >>]
                      /\ refresh_status' =
                           [refresh_status EXCEPT
                              !.status_message =
                                 <<"Saving", Len(all_data[w])>>]
                      /\ pc' = [pc EXCEPT ![w] = "writing"]
                      /\ UNCHANGED clock
                 ELSE /\ Stamp(w)
                      /\ pc' = [pc EXCEPT ![w] = "finally"]
                      /\ UNCHANGED file
       ELSE /\ refresh_status' = [refresh_status EXCEPT
                                    !.status_message = <<"No data", 0>>]
            /\ pc' = [pc EXCEPT ![w] = "finally"]
            /\ UNCHANGED <<file, clock, faults, obs>>
    /\ UNCHANGED <<csv, seen, orch, categories, catIdx, idx, markets, all_data,
                   response>>

\* export_to_csv: the rows are written and the file is closed; then the
\* refresh is stamped.
WebExportRows(w) ==
    /\ orch = "web"
    /\ pc[w] = "writing"
    /\ file' = [exists |-> TRUE, rows |-> all_data[w]]
    /\ Stamp(w)
    /\ pc' = [pc EXCEPT ![w] = "finally"]
    /\ UNCHANGED <<csv, seen, orch, categories, catIdx, idx, markets, all_data,
                   response, faults, obs>>

\* refresh_market_data_background: the finally clause.
WebFinally(w) ==
    /\ orch = "web"
    /\ pc[w] = "finally"
    /\ refresh_status' = [refresh_status EXCEPT !.in_progress = FALSE]
    /\ pc' = [pc EXCEPT ![w] = "done"]
    /\ UNCHANGED <<csv, seen, orch, categories, catIdx, idx, markets, all_data, file,
                   clock, response, faults, obs>>

\* POST /api/refresh-now: start a refresh thread unless one is in progress.
RefreshNowAlways ==
    /\ orch = "web"
    /\ \E w \in Workers :
          /\ pc[w] = "idle"
          /\ \A v \in Workers : pc[v] = "idle" => w <= v
          /\ pc' = [pc EXCEPT ![w] = "start"]
    /\ response' = <<"refresh started", 200>>
    /\ UNCHANGED <<csv, seen, orch, categories, catIdx, idx, markets, all_data,
                   refresh_status, file, clock, faults, obs>>

RefreshNow ==
    /\ orch = "web"
    /\ IF ~refresh_status.in_progress
       THEN /\ \E w \in Workers :
                 /\ pc[w] = "idle"
                 /\ \A v \in Workers : pc[v] = "idle" => w <= v
                 /\ pc' = [pc EXCEPT ![w] = "start"]
            /\ response' = <<"refresh started", 200>>
       ELSE /\ response' = <<"refresh already in progress", 429>>
            /\ UNCHANGED pc
    /\ UNCHANGED <<csv, seen, orch, categories, catIdx, idx, markets, all_data,
                   refresh_status, file, clock, faults, obs>>

\* ------------------------------------------------------ the specifications
\* `file` is the data file as the runs see it: which records it holds.
\* The data file before the run: absent, or the export of an earlier run.
InitFiles ==
    { [exists |-> FALSE, rows |-> << >>],
      [exists |-> TRUE, rows |-> << MarketData("forex", 0) >>] }

InitCommon ==
    /\ catIdx = [w \in Workers |-> 0]
    /\ idx = [w \in Workers |-> 0]
    /\ markets = [w \in Workers |-> << >>]
    /\ all_data = [w \in Workers |-> << >>]
    /\ refresh_status = [in_progress |-> FALSE, last_refresh |-> 0,
                         status_message |-> <<"Ready", 0>>]
    /\ file \in InitFiles
    /\ clock = 0
    /\ response = <<"none", 0>>
    /\ faults = 0
    /\ obs = [w \in Workers |-> Obs0]
    /\ csv = [exists |-> FALSE, header |-> << >>, rows |-> << >>]
    /\ seen = [read |-> FALSE, rows |-> << >>]

\* One run: main() of the CLI, or the startup refresh thread of the viewer.
Init ==
    /\ orch \in {"cli", "web"}
    /\ categories \in CategoryLists
    /\ pc = [w \in Workers |->
               IF w = 1 THEN (IF orch = "cli" THEN "session" ELSE "start")
               ELSE "idle"]
    /\ InitCommon

Next ==
    \E w \in Workers :
        \/ CliCreateSession(w)
        \/ CliListCategory(w, FALSE)
        \/ CliProcessInstrument(w)
        \/ CliRateLimit(w)
        \/ CliExport(w)
        \/ WebStart(w)
        \/ WebCreateSession(w)
        \/ WebListCategory(w, FALSE)
        \/ WebProcessInstrument(w)
        \/ WebRateLimit(w)
        \/ WebExportBegin(w)
        \/ WebExportRows(w)
        \/ WebFinally(w)

Spec ==
    Init /\ [][Next]_vars

\* The web viewer: the startup refresh thread and POST /api/refresh-now
\* requests served concurrently with the refresh threads they start.
InitWeb ==
    /\ orch = "web"
    /\ categories \in WebCategoryLists
    /\ pc = [w \in Workers |-> IF w = 1 THEN "start" ELSE "idle"]
    /\ InitCommon

NextWeb ==
    \/ RefreshNow
    \/ \E w \in Workers :
        \/ WebStart(w)
        \/ WebCreateSession(w)
        \/ WebListCategory(w, TRUE)
        \/ WebProcessInstrument(w)
        \/ WebRateLimit(w)
        \/ WebExportBegin(w)
        \/ WebExportRows(w)
        \/ WebFinally(w)

SpecWeb ==
    InitWeb /\ [][NextWeb]_vars

\* The next statement of refresh thread w.
refresh_market_data_background(w) ==
    \/ WebStart(w)
    \/ WebCreateSession(w)
    \/ WebListCategory(w, TRUE)
    \/ WebProcessInstrument(w)
    \/ WebRateLimit(w)
    \/ WebExportBegin(w)
    \/ WebExportRows(w)
    \/ WebFinally(w)

\* The web viewer with the startup refresh about to run and one more thread
\* left to start on request; the threads beyond these two have run and ended
\* earlier.
InitWebFair ==
    /\ orch = "web"
    /\ categories \in WebCategoryLists
    /\ pc = [w \in Workers |-> IF w = 1 THEN "start"
                                ELSE IF w = 2 THEN "idle" ELSE "done"]
    /\ InitCommon

\* Every started refresh thread is scheduled again and again, and every
\* upstream call and file operation returns; requests come or do not.
SpecWebFair ==
    /\ InitWebFair
    /\ [][NextWeb]_vars
    /\ \A w \in Workers : WF_vars(refresh_market_data_background(w))

\* load_market_data, called by the handlers of /, /api/markets,
\* /api/categories and /api/top-performers on the server's request threads:
\* the rows the data file holds now, none when the file does not exist.
LoadMarketData ==
    /\ orch = "web"
    /\ seen' = [read |-> TRUE,
                rows |-> IF file.exists THEN file.rows ELSE << >>]
    /\ UNCHANGED <<csv, orch, categories, pc, catIdx, idx, markets, all_data,
                   refresh_status, file, clock, response, faults, obs>>

\* The web viewer serving reads while refreshes run, over the data file an
\* earlier export left.
InitRead ==
    /\ InitWeb
    /\ file.exists

NextRead ==
    \/ NextWeb
    \/ LoadMarketData

SpecRead ==
    InitRead /\ [][NextRead]_vars

\* ------------------------------------------------- records and the CSV text
\* Python values: None, a float (in thousandths), a str.  A str that
\* format_percentage built keeps its parts: sign, digits before the point,
\* the two digits after it; it reads "<->whole.frac%".
None == [none |-> TRUE]

Num(n) == [num |-> n]

Text(s) == [s |-> s]

Pct(neg, whole, frac) == [neg |-> neg, whole |-> whole, frac |-> frac]

IsNone(x) == "none" \in DOMAIN x

IsNum(x) == "num" \in DOMAIN x

IsPct(x) == "frac" \in DOMAIN x

\* dict.get(key, default)
Get(d, key, default) ==
    IF key \in DOMAIN d THEN d[key] ELSE default

Range(s) == { s[i] : i \in DOMAIN s }

\* str.upper() on the category names in use.
Upper(category) ==
    CASE category = "forex" -> "FOREX"
      [] category = "shares" -> "SHARES"

\* "{value:.2f}%" of a float given in thousandths: the nearest hundredth,
\* the sign kept even when the digits are all zero.
FormatFalsy(value) ==
    IF IsNone(value) \/ value.num = 0 THEN Text("N/A")
    ELSE LET a == IF value.num < 0 THEN 0 - value.num ELSE value.num
             q == a \div 10
             r == a % 10
             h == IF r > 5 \/ (r = 5 /\ q % 2 = 1) THEN q + 1 ELSE q
         IN  Pct(value.num < 0, h \div 100, h % 100)

format_percentage(value) ==
    IF IsNone(value) THEN Text("N/A")
    ELSE LET a == IF value.num < 0 THEN 0 - value.num ELSE value.num
             q == a \div 10
             r == a % 10
             h == IF r > 5 \/ (r = 5 /\ q % 2 = 1) THEN q + 1 ELSE q
         IN  Pct(value.num < 0, h \div 100, h % 100)

\* The keys of the performance result the runs read.
PerfKeys ==
    {"perf_1d", "perf_1w", "perf_1m", "perf_3m", "perf_6m", "perf_ytd",
     "perf_1y", "perf_5y", "perf_10y"}

\* A performance result with a different value under every key, in
\* thousandths of a percent.
BasePerf(key) ==
    CASE key = "perf_1d" -> 5263
      [] key = "perf_1w" -> 0 - 4
      [] key = "perf_1m" -> 12346
      [] key = "perf_3m" -> 0 - 12344
      [] key = "perf_6m" -> 999996
      [] key = "perf_ytd" -> 7
      [] key = "perf_1y" -> 0 - 100000
      [] key = "perf_5y" -> 1
      [] key = "perf_10y" -> 250004

\* What may be special about one key of a performance result.
Specials == {"missing", "None", "zero"}

\* calculate_performance(epic): the base result with one key left out, None
\* or zero.
Performance(key, special) ==
    LET full == [k \in PerfKeys |-> Num(BasePerf(k))]
    IN  CASE special = "missing" -> [k \in PerfKeys \ {key} |-> full[k]]
          [] special = "None" -> [full EXCEPT ![key] = None]
          [] special = "zero" -> [full EXCEPT ![key] = Num(0)]

\* Instruments the upstream may list, with the details and the performance
\* it returns for them: one with every field the record reads, under every
\* performance result above, and one with the optional fields absent and no
\* performance at all.
Instruments ==
    { [category |-> "forex",
       market |-> [epic |-> Text("EURUSD")],
       details |-> [snapshot |-> [bid |-> Num(1085),
                                  percentageChange |-> Num(0 - 1234),
                                  marketStatus |-> Text("TRADEABLE")],
                    instrument |-> [currency |-> Text("USD"),
                                    type |-> Text("CURRENCIES")]],
       performance |-> Performance(key, special)] :
          key \in PerfKeys, special \in Specials }
    \cup
    { [category |-> "shares",
       market |-> [epic |-> Text("AAPL"), instrumentName |-> Text("Apple Inc")],
       details |-> [snapshot |-> [bid |-> Num(189500)]],
       performance |-> << >>] }

\* The record run_analyzer.py compiles for an instrument.
CliMarketRecord(category, market, details, performance) ==
    LET epic == Get(market, "epic", None)
        name == Get(market, "instrumentName", epic)
        snapshot == Get(details, "snapshot", << >>)
        instrument == Get(details, "instrument", << >>)
    IN  "Category" :> Text(Title(category))
        @@ "Symbol" :> epic
        @@ "Name" :> name
        @@ "Current Price" :> Get(snapshot, "bid", Text("N/A"))
        @@ "Currency" :> Get(instrument, "currency", Text("N/A"))
        @@ "Price Change %" :>
               format_percentage(Get(snapshot, "percentageChange", None))
        @@ "Perf % 1W" :> format_percentage(Get(performance, "perf_1w", None))
        @@ "Perf % 1M" :> format_percentage(Get(performance, "perf_1m", None))
        @@ "Perf % 3M" :> format_percentage(Get(performance, "perf_3m", None))
        @@ "Perf % 6M" :> format_percentage(Get(performance, "perf_6m", None))
        @@ "Perf % YTD" :> format_percentage(Get(performance, "perf_ytd", None))
        @@ "Perf % 1Y" :> format_percentage(Get(performance, "perf_1y", None))
        @@ "Perf % 5Y" :> format_percentage(Get(performance, "perf_5y", None))
        @@ "Perf % 10Y" :> format_percentage(Get(performance, "perf_10y", None))
        @@ "Market Status" :> Get(snapshot, "marketStatus", Text("N/A"))
        @@ "Type" :> Get(instrument, "type", Text(Upper(category)))

\* The record web_viewer.py compiles for an instrument.
WebMarketRecord(category, market, details, performance) ==
    LET epic == Get(market, "epic", None)
        name == Get(market, "instrumentName", epic)
        snapshot == Get(details, "snapshot", << >>)
        instrument == Get(details, "instrument", << >>)
    IN  "Category" :> Text(Title(category))
        @@ "Symbol" :> epic
        @@ "Name" :> name
        @@ "Current Price" :> Get(snapshot, "bid", Text("N/A"))
        @@ "Currency" :> Get(instrument, "currency", Text("N/A"))
        @@ "Price Change %" :>
               format_percentage(Get(snapshot, "percentageChange", None))
        @@ "Perf % 1D" :> format_percentage(Get(performance, "perf_1d", None))
        @@ "Perf % 1W" :> format_percentage(Get(performance, "perf_1w", None))
        @@ "Perf % 1M" :> format_percentage(Get(performance, "perf_1m", None))
        @@ "Perf % 3M" :> format_percentage(Get(performance, "perf_3m", None))
        @@ "Perf % 6M" :> format_percentage(Get(performance, "perf_6m", None))
        @@ "Perf % YTD" :> format_percentage(Get(performance, "perf_ytd", None))
        @@ "Perf % 1Y" :> format_percentage(Get(performance, "perf_1y", None))
        @@ "Perf % 5Y" :> format_percentage(Get(performance, "perf_5y", None))
        @@ "Perf % 10Y" :> format_percentage(Get(performance, "perf_10y", None))
        @@ "Market Status" :> Get(snapshot, "marketStatus", Text("N/A"))
        @@ "Type" :> Get(instrument, "type", Text(Upper(category)))

\* The column order of run_analyzer.export_to_csv.
CliFieldnames ==
    <<"Category", "Symbol", "Name", "Current Price", "Currency",
      "Price Change %", "Perf % 1W", "Perf % 1M", "Perf % 3M", "Perf % 6M",
      "Perf % YTD", "Perf % 1Y", "Perf % 5Y", "Perf % 10Y", "Market Status",
      "Type">>

\* The column order of web_viewer.export_to_csv.
WebFieldnames ==
    <<"Category", "Symbol", "Name", "Current Price", "Currency",
      "Price Change %", "Perf % 1D", "Perf % 1W", "Perf % 1M", "Perf % 3M",
      "Perf % 6M", "Perf % YTD", "Perf % 1Y", "Perf % 5Y", "Perf % 10Y",
      "Market Status", "Type">>

\* The text csv writes for a value: nothing for None, the digits of a
\* number, a str as it is.
Str(x) ==
    IF IsNone(x) THEN Text("")
    ELSE IF IsNum(x) THEN [digits |-> x.num]
    ELSE x

\* csv.DictWriter: writeheader(), then writerows(data).  A record with a key
\* outside fieldnames raises, after the rows before it were written; a key
\* the record lacks is written empty.
DictWriter(data, fieldnames) ==
    LET fits(i) == DOMAIN data[i] \subseteq Range(fieldnames)
        n == IF \A i \in 1..Len(data) : fits(i) THEN Len(data)
             ELSE (CHOOSE i \in 1..Len(data) :
                      /\ ~fits(i)
                      /\ \A j \in 1..(i - 1) : fits(j)) - 1
    IN  [exists |-> TRUE,
         header |-> fieldnames,
         rows |-> [i \in 1..n |->
                     [c \in 1..Len(fieldnames) |->
                        Str(Get(data[i], fieldnames[c], None))]]]

\* run_analyzer.export_to_csv(data, filename) on the file f; r is the
\* outcome of open(filename, 'w').  The function prints a failure and
\* returns either way.
CliExportToCsvUnguarded(data, f, r) ==
    IF r = "ioerror" THEN f
    ELSE DictWriter(data, CliFieldnames)

CliExportToCsv(data, f, r) ==
    IF Len(data) = 0 THEN f
    ELSE IF r = "ioerror" THEN f
    ELSE DictWriter(data, CliFieldnames)

\* web_viewer.export_to_csv(data, filename), likewise.
WebExportToCsv(data, f, r) ==
    IF Len(data) = 0 THEN f
    ELSE IF r = "ioerror" THEN f
    ELSE DictWriter(data, WebFieldnames)

\* csv.DictReader over the file: one dict per row after the header, keyed by
\* the header's names.  A file that does not exist loads as no rows.
DictReader(f) ==
    IF ~f.exists THEN << >>
    ELSE [i \in 1..Len(f.rows) |->
            [k \in Range(f.header) |->
               f.rows[i][CHOOSE c \in 1..Len(f.header) : f.header[c] = k]]]

ParseDropSign(value) ==
    IF IsPct(value)
    THEN Num((value.whole * 100 + value.frac) * 10)
    ELSE None

\* float(value.replace('%', '').strip()) of a loaded cell, in thousandths;
\* None where the cell is 'N/A' or not a number.
parse_percentage(value) ==
    IF IsPct(value)
    THEN LET a == (value.whole * 100 + value.frac) * 10
         IN  Num(IF value.neg THEN 0 - a ELSE a)
    ELSE None

\* ------------------------------------------ compile, export, load: one file
MaxRecords == 2

\* A data file an earlier run left: the header and one row.
OldCsv ==
    DictWriter(<<CliMarketRecord("forex", [epic |-> Text("GBPUSD")], << >>,
                                 << >>)>>, CliFieldnames)

\* The CLI run compiles the record of one more instrument.
CliCompile(w) ==
    /\ orch = "cli"
    /\ pc[w] = "compile"
    /\ Len(all_data[w]) < MaxRecords
    /\ \E i \in Instruments :
          /\ all_data' = [all_data EXCEPT ![w] =
                Append(@, CliMarketRecord(i.category, i.market, i.details,
                                          i.performance))]
          /\ obs' = [obs EXCEPT ![w].perfs = Append(@, i.performance)]
    /\ UNCHANGED <<csv, seen, orch, categories, pc, catIdx, idx, markets,
                   refresh_status, file, clock, response, faults>>

\* The web viewer's refresh compiles the record of one more instrument.
WebCompile(w) ==
    /\ orch = "web"
    /\ pc[w] = "compile"
    /\ Len(all_data[w]) < MaxRecords
    /\ \E i \in Instruments :
          /\ all_data' = [all_data EXCEPT ![w] =
                Append(@, WebMarketRecord(i.category, i.market, i.details,
                                          i.performance))]
          /\ obs' = [obs EXCEPT ![w].perfs = Append(@, i.performance)]
    /\ UNCHANGED <<csv, seen, orch, categories, pc, catIdx, idx, markets,
                   refresh_status, file, clock, response, faults>>

\* export_to_csv is applied to the records compiled so far, none included.
CliExportCall(w) ==
    /\ orch = "cli"
    /\ pc[w] = "compile"
    /\ \E r \in WriteOutcomes :
          /\ csv' = CliExportToCsv(all_data[w], csv, r)
          /\ IF Len(all_data[w]) > 0
             THEN /\ obs' = [obs EXCEPT ![w] = Write(@, r)]
                  /\ Fault(r)
             ELSE UNCHANGED <<obs, faults>>
    /\ pc' = [pc EXCEPT ![w] = "exported"]
    /\ UNCHANGED <<seen, orch, categories, catIdx, idx, markets, all_data,
                   refresh_status, file, clock, response>>

WebExportCall(w) ==
    /\ orch = "web"
    /\ pc[w] = "compile"
    /\ \E r \in WriteOutcomes :
          /\ csv' = WebExportToCsv(all_data[w], csv, r)
          /\ IF Len(all_data[w]) > 0
             THEN /\ obs' = [obs EXCEPT ![w] = Write(@, r)]
                  /\ Fault(r)
             ELSE UNCHANGED <<obs, faults>>
    /\ pc' = [pc EXCEPT ![w] = "exported"]
    /\ UNCHANGED <<seen, orch, categories, catIdx, idx, markets, all_data,
                   refresh_status, file, clock, response>>

\* load_csv / load_market_data: the file is read back.
Load(w) ==
    /\ pc[w] = "exported"
    /\ seen' = [read |-> TRUE, rows |-> DictReader(csv)]
    /\ pc' = [pc EXCEPT ![w] = "loaded"]
    /\ UNCHANGED <<csv, orch, categories, catIdx, idx, markets, all_data,
                   refresh_status, file, clock, response, faults, obs>>

InitCsv ==
    /\ orch \in {"cli", "web"}
    /\ categories = << >>
    /\ pc = [w \in Workers |-> IF w = 1 THEN "compile" ELSE "idle"]
    /\ catIdx = [w \in Workers |-> 0]
    /\ idx = [w \in Workers |-> 0]
    /\ markets = [w \in Workers |-> << >>]
    /\ all_data = [w \in Workers |-> << >>]
    /\ refresh_status = [in_progress |-> FALSE, last_refresh |-> 0,
                         status_message |-> <<"Ready", 0>>]
    /\ file = [exists |-> FALSE, rows |-> << >>]
    /\ clock = 0
    /\ response = <<"none", 0>>
    /\ faults = 0
    /\ obs = [w \in Workers |-> Obs0]
    /\ csv \in {[exists |-> FALSE, header |-> << >>, rows |-> << >>], OldCsv}
    /\ seen = [read |-> FALSE, rows |-> << >>]

NextCsv ==
    \E w \in Workers :
        \/ CliCompile(w)
        \/ WebCompile(w)
        \/ CliExportCall(w)
        \/ WebExportCall(w)
        \/ Load(w)

SpecCsv ==
    InitCsv /\ [][NextCsv]_vars

\* ------------------------------------------------------ /api/top-performers
MaxRows == 6

\* The keys of timeframe_map.
timeframe_map ==
    {"Perf % 1D", "Perf % 1W", "Perf % 1M", "Perf % 3M", "Perf % 6M",
     "Perf % YTD", "Perf % 1Y", "Perf % 5Y", "Perf % 10Y"}

\* timeframe_map.get(timeframe, 'Perf % 1M')
Column(timeframe) ==
    IF timeframe \in timeframe_map THEN timeframe ELSE "Perf % 1M"

\* Sort keys: a float as <<1, thousandths>>, float('-inf') as <<0, 0>>.
NegInf == <<0, 0>>

Less(a, b) ==
    a[1] < b[1] \/ (a[1] = b[1] /\ a[2] < b[2])

\* sort_key(item): the number in the performance string, float('-inf') for
\* 'N/A' and for a string float() rejects.
SortKeyNAFirst(item) ==
    LET perf == item.performance
    IN  IF perf = Text("N/A") THEN <<2, 0>>
        ELSE IF IsPct(perf) THEN <<1, parse_percentage(perf).num>>
        ELSE NegInf

sort_key(item) ==
    LET perf == item.performance
    IN  IF perf = Text("N/A") THEN NegInf
        ELSE IF IsPct(perf) THEN <<1, parse_percentage(perf).num>>
        ELSE NegInf

\* sorted(items, key=sort_key, reverse=True): descending, items of equal key
\* in their original order.
RECURSIVE sorted(_)
sorted(items) ==
    IF Len(items) <= 1 THEN items
    ELSE LET x == Head(items)
             t == sorted(Tail(items))
             n == Cardinality({j \in 1..Len(t) :
                                 Less(sort_key(x), sort_key(t[j]))})
         IN  SubSeq(t, 1, n) \o <<x>> \o SubSeq(t, n + 1, Len(t))

\* get_top_performers on the loaded markets: per category of the file, the
\* first five of its markets sorted by the timeframe's column.
get_top_performers(loaded, timeframe) ==
    LET column == Column(timeframe)
        category(market) == Get(market, "Category", Text("Unknown"))
        item(market) ==
            [symbol |-> Get(market, "Symbol", Text("N/A")),
             name |-> Get(market, "Name", Text("N/A")),
             performance |-> Get(market, column, Text("N/A"))]
        results(c) ==
            LET in(market) == category(market) = c
                ms == SelectSeq(loaded, in)
            IN  [j \in 1..Len(ms) |-> item(ms[j])]
    IN  [c \in {category(loaded[i]) : i \in 1..Len(loaded)} |->
           LET s == sorted(results(c))
           IN  SubSeq(s, 1, IF Len(s) < 5 THEN Len(s) ELSE 5)]

\* Kinds of rows a data file may hold: category, one-week and one-month
\* cell.  The empty cell is one float() rejects.
RowKinds ==
    { <<"Forex", Text("N/A"), Pct(FALSE, 3, 0)>>,
      <<"Forex", Pct(FALSE, 5, 0), Pct(TRUE, 1, 0)>>,
      <<"Forex", Pct(TRUE, 2, 50), Text("")>>,
      <<"Shares", Text(""), Text("N/A")>> }

\* The data file with one row of the given kind per position; the i-th row
\* has the symbol i.
TopFile(kinds) ==
    DictWriter(
        [i \in 1..Len(kinds) |->
           [c \in Range(CliFieldnames) |->
              CASE c = "Category" -> Text(kinds[i][1])
                [] c = "Symbol" -> [sym |-> i]
                [] c = "Name" -> [sym |-> i]
                [] c = "Perf % 1W" -> kinds[i][2]
                [] c = "Perf % 1M" -> kinds[i][3]
                [] OTHER -> Text("N/A")]],
        CliFieldnames)

\* Values of the request's timeframe parameter.
Timeframes == {"Perf % 1W", "Perf % 1D", "1M"}

\* GET /api/top-performers?timeframe=...
GetTopPerformers ==
    /\ orch = "web"
    /\ response[1] = "none"
    /\ \E timeframe \in Timeframes :
          LET loaded == DictReader(csv)
          IN  /\ seen' = [read |-> TRUE, rows |-> loaded]
              /\ response' = <<"top-performers", 200, timeframe,
                               get_top_performers(loaded, timeframe)>>
    /\ UNCHANGED <<csv, orch, categories, pc, catIdx, idx, markets, all_data,
                   refresh_status, file, clock, faults, obs>>

InitTop ==
    /\ orch = "web"
    /\ categories = << >>
    /\ pc = [w \in Workers |-> "idle"]
    /\ catIdx = [w \in Workers |-> 0]
    /\ idx = [w \in Workers |-> 0]
    /\ markets = [w \in Workers |-> << >>]
    /\ all_data = [w \in Workers |-> << >>]
    /\ refresh_status = [in_progress |-> FALSE, last_refresh |-> 0,
                         status_message |-> <<"Ready", 0>>]
    /\ file = [exists |-> FALSE, rows |-> << >>]
    /\ clock = 0
    /\ response = <<"none", 0>>
    /\ faults = 0
    /\ obs = [w \in Workers |-> Obs0]
    /\ csv \in { TopFile(kinds) :
                   kinds \in UNION { [1..n -> RowKinds] : n \in 0..MaxRows } }
    /\ seen = [read |-> FALSE, rows |-> << >>]

NextTop ==
    GetTopPerformers

SpecTop ==
    InitTop /\ [][NextTop]_vars

\* ------------------------------------------------------------ view_results
\* The filter loop of print_top_performers and print_worst_performers: the
\* (row, value) pairs of the rows whose metric cell is not 'N/A' and is a
\* number for float(), in file order.
ValidDataJunkAsZero(data, metric) ==
    LET cell(row) == Get(row, metric, Text("N/A"))
        keep(row) == cell(row) # Text("N/A")
        rows == SelectSeq(data, keep)
    IN  [j \in 1..Len(rows) |->
           <<rows[j], IF IsPct(cell(rows[j]))
                      THEN parse_percentage(cell(rows[j])).num ELSE 0>>]

valid_data(data, metric) ==
    LET cell(row) == Get(row, metric, Text("N/A"))
        keep(row) == cell(row) # Text("N/A") /\ IsPct(cell(row))
        rows == SelectSeq(data, keep)
    IN  [j \in 1..Len(rows) |->
           <<rows[j], parse_percentage(cell(rows[j])).num>>]

\* list.sort(key=lambda x: x[1], reverse=reverse): by value, pairs of equal
\* value in their original order.
RECURSIVE sort(_, _)
sort(pairs, reverse) ==
    IF Len(pairs) <= 1 THEN pairs
    ELSE LET x == Head(pairs)
             t == sort(Tail(pairs), reverse)
             n == Cardinality({j \in 1..Len(t) :
                                 IF reverse THEN t[j][2] > x[2]
                                 ELSE t[j][2] < x[2]})
         IN  SubSeq(t, 1, n) \o <<x>> \o SubSeq(t, n + 1, Len(t))

\* The table rows a function prints for valid_data[:limit].
Printed(pairs, limit) ==
    [j \in 1..(IF Len(pairs) < limit THEN Len(pairs) ELSE limit) |->
       [symbol |-> Get(pairs[j][1], "Symbol", Text("")),
        name |-> Get(pairs[j][1], "Name", Text("")),
        value |-> pairs[j][2]]]

\* print_top_performers(data, metric, limit): the rows of the table it
\* prints; none when there is no data or no valid value.
print_top_performers(data, metric, limit) ==
    Printed(sort(valid_data(data, metric), TRUE), limit)

\* print_worst_performers(data, metric, limit), likewise.
print_worst_performers(data, metric, limit) ==
    Printed(sort(valid_data(data, metric), FALSE), limit)

\* The row kinds of the files the viewer is run on: those of one category
\* (the two functions do not read the category).
ViewRowKinds ==
    { kind \in RowKinds : kind[1] = "Forex" }

\* The metrics main() goes through and the limit it passes.
Metrics == {"Perf % 1W", "Perf % 1M", "Perf % 1Y"}

Limits == {5}

\* view_results.main(): the file is loaded and, for a metric of the loop,
\* the top and the bottom table are printed; nothing is printed for a file
\* without rows.
ViewResults ==
    /\ orch = "cli"
    /\ response[1] = "none"
    /\ \E metric \in Metrics, limit \in Limits :
          LET data == DictReader(csv)
          IN  /\ seen' = [read |-> TRUE, rows |-> data]
              /\ response' =
                    IF Len(data) = 0 THEN <<"No data found in file", 0>>
                    ELSE <<"performers", metric, limit,
                           print_top_performers(data, metric, limit),
                           print_worst_performers(data, metric, limit)>>
    /\ UNCHANGED <<csv, orch, categories, pc, catIdx, idx, markets, all_data,
                   refresh_status, file, clock, faults, obs>>

InitView ==
    /\ orch = "cli"
    /\ categories = << >>
    /\ pc = [w \in Workers |-> "idle"]
    /\ catIdx = [w \in Workers |-> 0]
    /\ idx = [w \in Workers |-> 0]
    /\ markets = [w \in Workers |-> << >>]
    /\ all_data = [w \in Workers |-> << >>]
    /\ refresh_status = [in_progress |-> FALSE, last_refresh |-> 0,
                         status_message |-> <<"Ready", 0>>]
    /\ file = [exists |-> FALSE, rows |-> << >>]
    /\ clock = 0
    /\ response = <<"none", 0>>
    /\ faults = 0
    /\ obs = [w \in Workers |-> Obs0]
    /\ csv \in { TopFile(kinds) :
                   kinds \in UNION { [1..n -> ViewRowKinds] : n \in 0..MaxRows } }
    /\ seen = [read |-> FALSE, rows |-> << >>]

NextView ==
    ViewResults

SpecView ==
    InitView /\ [][NextView]_vars

\* ------------------------------------------------------ get_dashboard_stats
\* The loop of get_dashboard_stats from market i on: best holds best_value
\* (as a sort key) and best_performer so far.  A market replaces the best
\* only when its 'Perf % 1M' is not 'N/A', is a number for float() and is
\* greater than best_value.
RECURSIVE ScanLastOnTies(_, _, _)
ScanLastOnTies(loaded, i, best) ==
    IF i > Len(loaded) THEN best
    ELSE LET perf_1m == Get(loaded[i], "Perf % 1M", Text("N/A"))
             value == <<1, parse_percentage(perf_1m).num>>
         IN  IF perf_1m # Text("N/A") /\ IsPct(perf_1m)
                /\ ~Less(value, best.best_value)
             THEN ScanLastOnTies(loaded, i + 1,
                      [best_value |-> value,
                       best_performer |->
                          [name |-> Get(loaded[i], "Symbol", Text("N/A")),
                           value |-> perf_1m]])
             ELSE ScanLastOnTies(loaded, i + 1, best)

RECURSIVE Scan(_, _, _)
Scan(loaded, i, best) ==
    IF i > Len(loaded) THEN best
    ELSE LET perf_1m == Get(loaded[i], "Perf % 1M", Text("N/A"))
             value == <<1, parse_percentage(perf_1m).num>>
         IN  IF perf_1m # Text("N/A") /\ IsPct(perf_1m)
                /\ Less(best.best_value, value)
             THEN Scan(loaded, i + 1,
                      [best_value |-> value,
                       best_performer |->
                          [name |-> Get(loaded[i], "Symbol", Text("N/A")),
                           value |-> perf_1m]])
             ELSE Scan(loaded, i + 1, best)

\* get_dashboard_stats on the loaded markets; last_fetch is the file's
\* modification time, here the file itself.
get_dashboard_stats(loaded, f) ==
    IF Len(loaded) = 0
    THEN [total_markets |-> 0,
          total_categories |-> 0,
          best_performer |-> None,
          last_fetch |-> Text("N/A")]
    ELSE [total_markets |-> Len(loaded),
          total_categories |->
             Cardinality({ Get(loaded[i], "Category", Text("Unknown")) :
                             i \in 1..Len(loaded) }),
          best_performer |->
             Scan(loaded, 1, [best_value |-> NegInf,
                              best_performer |-> None]).best_performer,
          last_fetch |-> IF f.exists THEN [modified |-> f.header]
                         ELSE Text("N/A")]

\* GET / : the dashboard is rendered from get_dashboard_stats().
GetDashboardStats ==
    /\ orch = "web"
    /\ response[1] = "none"
    /\ LET loaded == DictReader(csv)
       IN  /\ seen' = [read |-> TRUE, rows |-> loaded]
           /\ response' = <<"dashboard", 200,
                            get_dashboard_stats(loaded, csv)>>
    /\ UNCHANGED <<csv, orch, categories, pc, catIdx, idx, markets, all_data,
                   refresh_status, file, clock, faults, obs>>

NextDash ==
    GetDashboardStats

SpecDash ==
    InitTop /\ [][NextDash]_vars

\* ------------------------------------------------------------- properties
\* The run has returned, or died of an exception.
Ended(w) ==
    pc[w] \in {"done", "crashed"}

\* The data file holds exactly the records of the run.
Exported(w) ==
    file = [exists |-> TRUE, rows |-> all_data[w]]

\* The records the run computed have been written out (unless the write
\* itself failed).
Emitted(w) ==
    (Len(all_data[w]) > 0 /\ ~obs[w].ioerror) => Exported(w)

\* The cap the category table gives a category (the list length when the
\* category has no cap).
CapOf(category, n) ==
    IF Lower(category) \in DOMAIN CATEGORY_LIMITS
       /\ CATEGORY_LIMITS[Lower(category)] < n
    THEN CATEGORY_LIMITS[Lower(category)]
    ELSE n

\* The index of a record's category in the configured list, and the
\* position of its instrument in the list the upstream returned.
CatPos(r) ==
    CHOOSE k \in 1..Len(categories) : Title(categories[k]) = r.Category

UpPos(w, r) ==
    LET up == Listing(obs[w].avail[CatPos(r)])
    IN  CHOOSE p \in 1..Len(up) : up[p] = r.Symbol

\* C1: a detail fetch that returns nothing produces no record and does not
\* abort the batch: the run holds one record per successful detail fetch at
\* every moment, and the step that meets the failure leaves the records
\* alone and moves to the next instrument (or, after the last instrument of
\* the list, to the next category).
C1_Records ==
    \A w \in Workers : Len(all_data[w]) = obs[w].nOk

C1_Step ==
    \A w \in Workers :
        obs'[w].nNone = obs[w].nNone + 1 =>
            /\ all_data'[w] = all_data[w]
            /\ IF idx[w] < Len(markets[w])
               THEN /\ pc'[w] = "instrument"
                    /\ idx'[w] = idx[w] + 1
                    /\ catIdx'[w] = catIdx[w]
               ELSE /\ pc'[w] \in {"category", "export"}
                    /\ catIdx'[w] = catIdx[w] + 1

C1_FailedDetailSkipped ==
    []C1_Records /\ [][C1_Step]_vars

\* One failure among 20 instruments: 19 records, all exported.
C1_Witness ==
    \E w \in Workers :
        /\ pc[w] = "done"
        /\ obs[w].nDetail = 20
        /\ obs[w].nNone = 1
        /\ Len(all_data[w]) = 19
        /\ Exported(w)

\* C2: in every run, the number of instruments processed in a category the
\* run has gone through is min(cap, returned) for a capped category and the
\* number returned for commodities.
C2_CapPerCategory ==
    \A w \in Workers :
        \A k \in 1..Len(obs[w].avail) :
            k < catIdx[w] =>
                obs[w].proc[k] = CapOf(categories[k], obs[w].avail[k])

\* C3: at most one refresh has been started and has not finished, and at
\* most one refresh is writing the data file.
C3_OneRefreshAtATime ==
    /\ Cardinality({w \in Workers : pc[w] \notin {"idle", "done"}}) <= 1
    /\ Cardinality({w \in Workers : pc[w] = "writing"}) <= 1

\* C4: never more than 20 detail fetches since the session was created or
\* since the last ping.
C4_PingEvery20Requests ==
    \A w \in Workers : obs[w].sincePing <= PING_EVERY

\* C5: when create_session fails the run issues no listing, no detail
\* fetch, no performance computation and no ping, holds no record and does
\* not open the data file for writing.
C5_NoSessionNoRun ==
    \A w \in Workers :
        obs[w].session = "fail" =>
            /\ obs[w].nList = 0
            /\ obs[w].nDetail = 0
            /\ obs[w].nPerf = 0
            /\ obs[w].nPing = 0
            /\ obs[w].nWrite = 0
            /\ Len(all_data[w]) = 0
            /\ pc[w] \in {"finally", "done"}

C5_Witness ==
    \E w \in Workers :
        /\ obs[w].session = "fail"
        /\ pc[w] = "done"
        /\ file.exists

\* C6: after a failed ping the run issues no further listing, detail fetch
\* or performance computation.
C6_HaltAfterFailedPing ==
    \A w \in Workers : ~obs[w].dead

\* C7: a run in which a category listing failed (came back empty, or
\* raised) and nothing else raised has listed every configured category by
\* its end and has written out its records.
C7_ListingFailureIsolated ==
    \A w \in Workers :
        ( /\ Ended(w)
          /\ obs[w].session = "ok"
          /\ obs[w].raised \in {"none", "list"}
          /\ obs[w].emptied \/ obs[w].raised = "list" )
        => /\ obs[w].nList = Len(categories)
           /\ Emitted(w)

\* C8: a run in which some step raised has, by its end, written out every
\* record it computed before.
C8_PartialFailureEmits ==
    \A w \in Workers :
        (Ended(w) /\ obs[w].raised # "none") => Emitted(w)

\* C9: the records are grouped by category in the configured order and,
\* within a category, follow the upstream order (every record is added at
\* the end of the sequence, after a record that precedes it in that order);
\* the instruments a run works on are the first entries of the list the
\* upstream returned.
C9_Order ==
    \A w \in Workers :
        Len(all_data[w]) >= 2 =>
            LET a == all_data[w][Len(all_data[w]) - 1]
                b == all_data[w][Len(all_data[w])]
            IN  \/ CatPos(a) < CatPos(b)
                \/ /\ CatPos(a) = CatPos(b)
                   /\ UpPos(w, a) < UpPos(w, b)

C9_Append ==
    \A w \in Workers :
        \/ all_data'[w] = all_data[w]
        \/ /\ Len(all_data'[w]) = Len(all_data[w]) + 1
           /\ SubSeq(all_data'[w], 1, Len(all_data[w])) = all_data[w]

C9_Prefix ==
    \A w \in Workers :
        Len(obs[w].avail) > 0 =>
            LET up == Listing(obs[w].avail[Len(obs[w].avail)])
            IN  /\ Len(markets[w]) <= Len(up)
                /\ markets[w] = SubSeq(up, 1, Len(markets[w]))

C9_UpstreamOrderKept ==
    [](C9_Order /\ C9_Prefix) /\ [][C9_Append]_vars

\* A finished run over two categories, the first of them truncated.
C9_Witness ==
    \E w \in Workers :
        /\ pc[w] = "done"
        /\ Len(obs[w].avail) = 2
        /\ obs[w].proc[1] > 0
        /\ obs[w].proc[1] < obs[w].avail[1]
        /\ obs[w].proc[2] > 1
        /\ Len(all_data[w]) = obs[w].proc[1] + obs[w].proc[2]

\* C10: no listing, detail fetch or ping is issued after a detail fetch
\* without a delay in between.
C10_DelayAfterEveryFetch ==
    \A w \in Workers : ~obs[w].rushed

\* C11: a run calls create_session once, and every listing, detail fetch,
\* performance computation and ping of the run is issued after that call
\* has returned a session (each run is one thread that issues one blocking
\* call per step).
C11_SingleSessionFirst ==
    \A w \in Workers :
        /\ obs[w].nSession <= 1
        /\ (obs[w].nList + obs[w].nDetail + obs[w].nPerf + obs[w].nPing > 0)
              => (obs[w].nSession = 1 /\ obs[w].session = "ok")
        /\ Ended(w) => obs[w].nSession = 1

C11_Witness ==
    \E w \in Workers :
        /\ pc[w] = "done"
        /\ obs[w].nSession = 1
        /\ obs[w].nList = 2
        /\ obs[w].nPerf > 0
        /\ obs[w].nPing > 0

\* C12: the file a run has written has exactly the 16 columns Category,
\* Symbol, Name, Current Price, Currency, Price Change %, Perf % 1W ... Perf %
\* 10Y, Market Status, Type, the header first and one row per emitted record,
\* and every emitted record carries exactly those 16 fields.
C12_Columns ==
    <<"Category", "Symbol", "Name", "Current Price", "Currency",
      "Price Change %", "Perf % 1W", "Perf % 1M", "Perf % 3M", "Perf % 6M",
      "Perf % YTD", "Perf % 1Y", "Perf % 5Y", "Perf % 10Y", "Market Status",
      "Type">>

C12_SixteenColumns ==
    \A w \in Workers :
        /\ \A i \in 1..Len(all_data[w]) :
               pc[w] \in {"compile", "exported", "loaded"}
                  => DOMAIN all_data[w][i] = Range(C12_Columns)
        /\ (pc[w] \in {"exported", "loaded"} /\ Len(all_data[w]) > 0
               /\ ~obs[w].ioerror)
              => /\ csv.exists
                 /\ csv.header = C12_Columns
                 /\ Len(csv.rows) = Len(all_data[w])
                 /\ \A i \in 1..Len(csv.rows) : Len(csv.rows[i]) = 16

\* C13: for each of the 8 lookback windows on its own, the record's field is
\* "N/A" exactly when the performance result has no value for the window
\* (key missing or None); an unavailable window is never "0.00%", never costs
\* the record, and leaves the other windows' fields at their own values; a
\* value of exactly 0 is written "0.00%".
C13_Windows ==
    { <<"perf_1w", "Perf % 1W">>, <<"perf_1m", "Perf % 1M">>,
      <<"perf_3m", "Perf % 3M">>, <<"perf_6m", "Perf % 6M">>,
      <<"perf_ytd", "Perf % YTD">>, <<"perf_1y", "Perf % 1Y">>,
      <<"perf_5y", "Perf % 5Y">>, <<"perf_10y", "Perf % 10Y">> }

C13_Near(cell, v) ==
    /\ IsPct(cell)
    /\ cell.neg = (v < 0)
    /\ LET h == cell.whole * 1000 + cell.frac * 10
           a == IF v < 0 THEN 0 - v ELSE v
       IN  h - a <= 5 /\ a - h <= 5

C13_UnavailableIsNA ==
    \A w \in Workers :
        /\ Len(all_data[w]) = Len(obs[w].perfs)
        /\ \A i \in 1..Len(obs[w].perfs), win \in C13_Windows :
              LET v == Get(obs[w].perfs[i], win[1], None)
                  cell == all_data[w][i][win[2]]
              IN  /\ (cell = Text("N/A")) <=> IsNone(v)
                  /\ ~IsNone(v) => C13_Near(cell, v.num)
                  /\ (~IsNone(v) /\ v.num = 0) => cell = Pct(FALSE, 0, 0)

C13_Witness ==
    \E w \in Workers :
        /\ Len(all_data[w]) = 2
        /\ "perf_5y" \notin DOMAIN obs[w].perfs[1]
        /\ all_data[w][1]["Perf % 5Y"] = Text("N/A")
        /\ all_data[w][1]["Perf % 1Y"] = Pct(TRUE, 100, 0)
        /\ Get(obs[w].perfs[2], "perf_1m", None) = Num(0)
        /\ all_data[w][2]["Perf % 1M"] = Pct(FALSE, 0, 0)

\* C14: POST /api/refresh-now while refresh_status['in_progress'] is true is
\* rejected, not queued: the answer is 'refresh already in progress' with
\* status 429, no thread starts, refresh_status stays as it is, and a thread
\* only ever starts in the step of a request that found the flag false.
C14_Step ==
    /\ (refresh_status.in_progress /\ response' # response)
          => /\ response' = <<"refresh already in progress", 429>>
             /\ pc' = pc
             /\ refresh_status' = refresh_status
    /\ \A w \in Workers :
          (pc[w] = "idle" /\ pc'[w] # "idle")
             => /\ ~refresh_status.in_progress
                /\ pc'[w] = "start"
                /\ response' = <<"refresh started", 200>>

C14_RejectedNotQueued ==
    [][C14_Step]_vars

C14_Witness ==
    /\ response = <<"refresh already in progress", 429>>
    /\ ~refresh_status.in_progress
    /\ \A w \in Workers : pc[w] \in {"idle", "done"}
    /\ \E w \in Workers : pc[w] = "idle"

\* C15: round trip.  A record exported with export_to_csv and read back with
\* load_csv / load_market_data has the same Category, Symbol and Name, and
\* each performance field, parsed by stripping '%', is the window's numeric
\* value rounded to 2 decimals, or unavailable where the field was "N/A".
C15_Windows ==
    { <<"perf_1d", "Perf % 1D">>, <<"perf_1w", "Perf % 1W">>,
      <<"perf_1m", "Perf % 1M">>, <<"perf_3m", "Perf % 3M">>,
      <<"perf_6m", "Perf % 6M">>, <<"perf_ytd", "Perf % YTD">>,
      <<"perf_1y", "Perf % 1Y">>, <<"perf_5y", "Perf % 5Y">>,
      <<"perf_10y", "Perf % 10Y">> }

C15_Rounded(parsed, v) ==
    /\ IsNum(parsed)
    /\ parsed.num % 10 = 0
    /\ parsed.num - v <= 5
    /\ v - parsed.num <= 5

C15_RoundTrip ==
    \A w \in Workers :
        (pc[w] = "loaded" /\ Len(all_data[w]) > 0 /\ ~obs[w].ioerror)
          => /\ Len(seen.rows) = Len(all_data[w])
             /\ \A i \in 1..Len(all_data[w]) :
                   LET rec == all_data[w][i]
                       row == seen.rows[i]
                   IN  /\ DOMAIN row = DOMAIN rec
                       /\ \A c \in {"Category", "Symbol", "Name"} :
                              row[c] = rec[c]
                       /\ \A win \in C15_Windows :
                              win[2] \in DOMAIN rec =>
                                LET v == Get(obs[w].perfs[i], win[1], None)
                                    parsed == parse_percentage(row[win[2]])
                                IN  IF rec[win[2]] = Text("N/A")
                                    THEN IsNone(parsed) /\ IsNone(v)
                                    ELSE /\ ~IsNone(v)
                                         /\ C15_Rounded(parsed, v.num)

C15_Witness ==
    \E w \in Workers :
        /\ pc[w] = "loaded"
        /\ ~obs[w].ioerror
        /\ Len(all_data[w]) = 2
        /\ Len(seen.rows) = 2
        /\ seen.rows[1]["Name"] = Text("Apple Inc")
        /\ seen.rows[1]["Perf % 1M"] = Text("N/A")
        /\ seen.rows[2]["Symbol"] = Text("EURUSD")
        /\ parse_percentage(seen.rows[2]["Perf % 3M"]) = Num(0 - 12340)
        /\ Get(obs[w].perfs[2], "perf_3m", None) = Num(0 - 12344)

\* C16: a read of the data file that runs while a refresh is exporting
\* returns the complete record set of the earlier export or the complete
\* record set of a refresh that is exporting or has exported, never an empty
\* or partly written file.
C16_ReadsCompleteSet ==
    seen.read =>
        \/ seen.rows = << MarketData("forex", 0) >>
        \/ \E w \in Workers :
              /\ obs[w].nWrite > 0
              /\ seen.rows = all_data[w]

\* C17: every background refresh that starts runs to its end and sets
\* refresh_status['in_progress'] back to False on the way, whatever its
\* outcome; the flag is never left at true for ever.
C17_FlagComesBack ==
    /\ \A w \in Workers : (pc[w] = "start") ~> (pc[w] = "done")
    /\ refresh_status.in_progress ~> ~refresh_status.in_progress

C17_Witness ==
    \E w, v \in Workers :
        /\ pc[w] = "done"
        /\ obs[w].raised # "none"
        /\ ~refresh_status.in_progress
        /\ pc[v] = "start"
        /\ response = <<"refresh started", 200>>

\* C18: refresh_status['last_refresh'] is set, and the status message reads
\* 'Updated N markets', only by a refresh that wrote its records to the data
\* file: not by one whose session creation failed, that retrieved no data,
\* or whose write of the file failed.
C18_StampedOnlyWhenWritten ==
    (refresh_status.last_refresh # 0
        \/ refresh_status.status_message[1] = "Updated")
      => \E w \in Workers :
            /\ obs[w].session = "ok"
            /\ Len(all_data[w]) > 0
            /\ ~obs[w].ioerror
            /\ file = [exists |-> TRUE, rows |-> all_data[w]]

\* C19: export_to_csv applied to an empty record list leaves the data file
\* as it was (not created, not truncated, not rewritten), and a run that
\* ends its collection with no record leaves the file as it was.
C19_Step ==
    \A w \in Workers :
        (/\ Len(all_data[w]) = 0
         /\ pc[w] \in {"compile", "export"}
         /\ pc'[w] \notin {"compile", "export"})
          => /\ csv' = csv
             /\ file' = file
             /\ obs'[w].nWrite = obs[w].nWrite

C19_EmptyExportKeepsFile ==
    [][C19_Step]_vars

C19_Witness ==
    \E w \in Workers :
        /\ pc[w] = "exported"
        /\ Len(all_data[w]) = 0
        /\ csv = OldCsv

\* C20: the answer of GET /api/top-performers holds, for every category in
\* the data file, at most 5 markets of that category, the best by the
\* selected timeframe's column, in descending order, those whose value is
\* "N/A" or not a number after every one with a number; a timeframe that is
\* not a known column name selects 'Perf % 1M'.
C20_Known ==
    {"Perf % 1D", "Perf % 1W", "Perf % 1M", "Perf % 3M", "Perf % 6M",
     "Perf % YTD", "Perf % 1Y", "Perf % 5Y", "Perf % 10Y"}

C20_Value(cell) ==
    (IF cell.neg THEN 0 - 1 ELSE 1) * (cell.whole * 100 + cell.frac)

\* a may stand before b in the answer
C20_Before(a, b) ==
    IsPct(b) => (IsPct(a) /\ C20_Value(a) >= C20_Value(b))

C20_TopFive ==
    response[1] = "top-performers" =>
        LET column == IF response[3] \in C20_Known THEN response[3]
                      ELSE "Perf % 1M"
            rows == seen.rows
            results == response[4]
            perf(i) == Get(rows[i], column, Text("N/A"))
        IN  /\ DOMAIN results = { rows[i]["Category"] : i \in 1..Len(rows) }
            /\ \A c \in DOMAIN results :
                  LET members == { i \in 1..Len(rows) : rows[i]["Category"] = c }
                      r == results[c]
                      chosen == { i \in members :
                                    \E j \in 1..Len(r) :
                                       r[j] = [symbol |-> rows[i]["Symbol"],
                                               name |-> rows[i]["Name"],
                                               performance |-> perf(i)] }
                  IN  /\ Len(r) <= 5
                      /\ Len(r) = 5 \/ Len(r) = Cardinality(members)
                      /\ Cardinality(chosen) = Len(r)
                      /\ \A j, k \in 1..Len(r) :
                            j < k => C20_Before(r[j].performance,
                                                r[k].performance)
                      /\ \A i \in members \ chosen, j \in 1..Len(r) :
                            C20_Before(r[j].performance, perf(i))

C20_Witness ==
    /\ response[1] = "top-performers"
    /\ response[3] = "1M"
    /\ Len(seen.rows) = 6
    /\ Text("Forex") \in DOMAIN response[4]
    /\ Len(response[4][Text("Forex")]) = 5
    /\ response[4][Text("Forex")][1].performance = Pct(FALSE, 3, 0)
    /\ response[4][Text("Forex")][2].performance = Pct(TRUE, 1, 0)
    /\ response[4][Text("Forex")][3].performance = Text("")
    /\ Text("Shares") \in DOMAIN response[4]

\* C21: print_top_performers and print_worst_performers list only rows whose
\* metric value is not "N/A" and is a number, at most `limit` of them: the
\* top list in non-increasing order holding the largest values, the bottom
\* list in non-decreasing order holding the smallest.
C21_Number(cell) ==
    (IF cell.neg THEN 0 - 1 ELSE 1) * (cell.whole * 1000 + cell.frac * 10)

\* The list holds min(limit, valid rows) distinct valid rows with their
\* values, in order, and no valid row left out beats a listed one.
C21_List(list, metric, limit, top) ==
    LET rows == seen.rows
        cell(i) == Get(rows[i], metric, Text("N/A"))
        valid == { i \in 1..Len(rows) : IsPct(cell(i)) }
        listed == { i \in valid :
                      \E j \in 1..Len(list) :
                         /\ list[j].symbol = rows[i]["Symbol"]
                         /\ list[j].name = rows[i]["Name"]
                         /\ list[j].value = C21_Number(cell(i)) }
    IN  /\ Len(list) <= limit
        /\ Len(list) = limit \/ Len(list) = Cardinality(valid)
        /\ Cardinality(listed) = Len(list)
        /\ \A j, k \in 1..Len(list) :
              j < k => IF top THEN list[j].value >= list[k].value
                       ELSE list[j].value <= list[k].value
        /\ \A i \in valid \ listed, j \in 1..Len(list) :
              IF top THEN list[j].value >= C21_Number(cell(i))
              ELSE list[j].value <= C21_Number(cell(i))

C21_OnlyNumbersListed ==
    response[1] = "performers" =>
        /\ C21_List(response[4], response[2], response[3], TRUE)
        /\ C21_List(response[5], response[2], response[3], FALSE)

C21_Witness ==
    /\ response[1] = "performers"
    /\ response[2] = "Perf % 1M"
    /\ Len(seen.rows) = 6
    /\ \E i \in 1..6 : seen.rows[i]["Perf % 1M"] = Text("")
    /\ Len(response[4]) = 5
    /\ response[4][1].value = 3000
    /\ response[4][5].value = 0 - 1000
    /\ response[5][1].value = 0 - 1000
    /\ response[5][5].value = 3000

\* C22: get_dashboard_stats reports as best_performer the market with the
\* greatest numeric 'Perf % 1M' among the rows whose value is not "N/A" and
\* is a number, the first such row in file order on ties, and None when no
\* row has a number; total_markets is the number of rows, total_categories
\* the number of distinct Category values.
C22_Number(cell) ==
    (IF cell.neg THEN 0 - 1 ELSE 1) * (cell.whole * 100 + cell.frac)

C22_BestPerformer ==
    response[1] = "dashboard" =>
        LET stats == response[3]
            rows == seen.rows
            cell(i) == rows[i]["Perf % 1M"]
            numeric == { i \in 1..Len(rows) : IsPct(cell(i)) }
        IN  /\ stats.total_markets = Len(rows)
            /\ stats.total_categories =
                  Cardinality({ rows[i]["Category"] : i \in 1..Len(rows) })
            /\ IF numeric = {}
               THEN stats.best_performer = [none |-> TRUE]
               ELSE \E i \in numeric :
                      /\ stats.best_performer =
                            [name |-> rows[i]["Symbol"], value |-> cell(i)]
                      /\ \A k \in numeric :
                            /\ C22_Number(cell(k)) <= C22_Number(cell(i))
                            /\ C22_Number(cell(k)) = C22_Number(cell(i))
                                  => i <= k

C22_Witness ==
    /\ response[1] = "dashboard"
    /\ Len(seen.rows) = 5
    /\ seen.rows[1]["Perf % 1M"] = Text("N/A")
    /\ seen.rows[2]["Perf % 1M"] = Pct(TRUE, 1, 0)
    /\ seen.rows[3]["Perf % 1M"] = Pct(FALSE, 3, 0)
    /\ seen.rows[4]["Perf % 1M"] = Text("")
    /\ seen.rows[5]["Perf % 1M"] = Pct(FALSE, 3, 0)
    /\ response[3].best_performer = [name |-> [sym |-> 3],
                                     value |-> Pct(FALSE, 3, 0)]
    /\ response[3].total_categories = 2

====
